---- MODULE Spec2Model ----
(***************************************************************************)
(* A model of whitelist.py: the Whitelist store (an ordered name -> uuid   *)
(* mapping mirrored to a JSON file), the identifier canonicalisation       *)
(* id_to_uuid, the remote command dispatcher send_command_to_mcrcon and    *)
(* the rcon sub-commands that loop over the configured destinations.       *)
(***************************************************************************)
EXTENDS Integers, Sequences, FiniteSets, TLC

VARIABLES
    \* ---- id_to_uuid, called on its own
    uPc,        \* where the call of id_to_uuid is: "idle", "loop" or "returned"
    uIn,        \* id_: the argument of the call
    uBatches,   \* batches
    uInd,       \* ind
    uLeft,      \* the widths the for loop has still to visit
    uOut,       \* what the call returned
    \* ---- the backing file
    fileExists, \* os.path.exists(path)
    file,       \* its content, a sequence of tokens: "[", records, "]"
    file0,      \* the content the file had at the start (never changed)
    \* ---- one Whitelist object per invocation
    pc,         \* the invocation's position
    usernames,  \* self._usernames: an insertion-ordered dict, as a sequence of entries
    container,  \* self.__container: a list of {uuid, name} records
    targets,    \* the batch handed to add / remove
    idx,        \* the for loop's position in targets (1-based)
    update,     \* add's local dict
    cur,        \* the public method in progress, or the last one that returned
    ops,        \* how many public methods were called on the object
    \* ---- what an observer records about the call in progress
    lastOps,    \* the last two public methods that returned, latest last
    preNames,   \* self._usernames when the call in progress began
    snap,       \* self._usernames when save() was last called directly
    preFile,    \* the file's content when the call in progress began
    outcomes,   \* the resolver's answer for each target processed so far
    nsaves,     \* file writes completed by the call in progress
    totalSaves, \* file writes completed by the invocation
    touched,    \* the names handed to add / remove so far
    lastWriter, \* the invocation whose write reached the file last (0: none)
    overlap,    \* two saves were in progress at the same time
    \* ---- an rcon sub-command and the dispatcher call in progress
    rPc,        \* the position in the sub-command's loop and in the dispatcher
    dests,      \* ctx.obj[Keys.DESTINATIONS]: the configured destinations' names
    cmd,        \* cmd, as its words
    di,         \* the for loop's position in dests (1-based)
    echoed,     \* the lines click.echo has printed
    conn,       \* the call's connection: "none", "open" or "closed"
    nclose,     \* how many times the call disconnected
    exc,        \* the exception being propagated ("none": none)
    result,     \* the string the call is returning ("none": none yet)
    \* ---- what an observer records about the dispatcher calls
    fault,      \* where the call in progress failed, and with what
    sent        \* the destinations the dispatcher was called for, in order

uuidVars  == <<uPc, uIn, uBatches, uInd, uLeft, uOut>>
fileVars  == <<fileExists, file, file0>>
objVars   == <<pc, usernames, container, targets, idx, update, cur, ops>>
histVars  == <<lastOps, preNames, snap, preFile, outcomes, nsaves, totalSaves, touched,
               lastWriter, overlap>>
storeVars == <<fileVars, objVars, histVars>>
rconVars  == <<rPc, dests, cmd, di, echoed, conn, nclose, exc, result, fault, sent>>
vars      == <<uuidVars, storeVars, rconVars>>

-----------------------------------------------------------------------------
(* Bounds of the model.                                                    *)

MaxSeed == 7        \* compact identifiers are drawn from (MaxSeed+1)^2 patterns
MaxNames == 2       \* user names the batches and the file draw from
MaxBatch == 2       \* the longest batch handed to add / remove
MaxFileRecs == 2    \* the most records the file holds at the start
MaxOps == 2         \* public methods called on one Whitelist object
MaxDests == 2       \* the most destinations the configuration lists

-----------------------------------------------------------------------------
(* Strings are sequences of one-character strings.                         *)

Hex == <<"0", "1", "2", "3", "4", "5", "6", "7",
         "8", "9", "a", "b", "c", "d", "e", "f">>

Min(a, b) == IF a < b THEN a ELSE b

\* Python's s[a:b] for 0 <= a <= b: the bounds are clamped to len(s).
Slice(s, a, b) == SubSeq(s, a + 1, Min(b, Len(s)))

GroupSizesSwapped == <<8, 4, 4, 12, 4>>

\* The group widths of id_to_uuid's for loop.
GroupSizes == <<8, 4, 4, 4, 12>>

RECURSIVE Batches(_, _, _)
\* batches after the loop has run over the widths ns, starting at offset ind.
Batches(id_, ind, ns) ==
    IF ns = <<>> THEN <<>>
    ELSE <<Slice(id_, ind, ind + Head(ns))>> \o Batches(id_, ind + Head(ns), Tail(ns))

RECURSIVE Join(_, _)
\* sep.join(parts)
Join(sep, parts) ==
    IF parts = <<>> THEN <<>>
    ELSE IF Len(parts) = 1 THEN Head(parts)
    ELSE Head(parts) \o <<sep>> \o Join(sep, Tail(parts))

\* Whitelist.id_to_uuid on a string.
IdToUuid(id_) == Join("-", Batches(id_, 0, GroupSizes))

RECURSIVE Split(_, _)
\* s.split(sep): the groups between the separators.
Split(s, sep) ==
    IF \A i \in 1..Len(s) : s[i] # sep THEN <<s>>
    ELSE LET k == CHOOSE i \in 1..Len(s) : s[i] = sep /\ \A j \in 1..(i-1) : s[j] # sep
         IN  <<SubSeq(s, 1, k - 1)>> \o Split(SubSeq(s, k + 1, Len(s)), sep)

RECURSIVE Concat(_)
Concat(parts) == IF parts = <<>> THEN <<>> ELSE Head(parts) \o Concat(Tail(parts))

\* The length of a well-formed compact identifier.
CompactLen == 8 + 4 + 4 + 4 + 12

\* A well-formed compact identifier: CompactLen hex digits, the pattern (a, b).
CompactId(a, b) == [i \in 1..CompactLen |-> Hex[((a * i + b) % 16) + 1]]

CompactIds == { CompactId(a, b) : a \in 0..MaxSeed, b \in 0..MaxSeed }

-----------------------------------------------------------------------------
(* id_to_uuid called on its own.                                           *)

\* id_to_uuid(id_) is entered: batches = [], ind = 0
UuidCall ==
    /\ uPc \in {"idle", "returned"}
    /\ \E id_ \in CompactIds : uIn' = id_
    /\ uBatches' = <<>>
    /\ uInd' = 0
    /\ uLeft' = GroupSizes
    /\ uOut' = <<>>
    /\ uPc' = "loop"
    /\ UNCHANGED <<storeVars, rconVars>>

\* One iteration: batches.append(id_[ind:ind + n]); ind += n
UuidLoop ==
    /\ uPc = "loop" /\ uLeft # <<>>
    /\ uBatches' = Append(uBatches, Slice(uIn, uInd, uInd + Head(uLeft)))
    /\ uInd' = uInd + Head(uLeft)
    /\ uLeft' = Tail(uLeft)
    /\ UNCHANGED <<uPc, uIn, uOut, storeVars, rconVars>>

\* return '-'.join(batches)
UuidReturn ==
    /\ uPc = "loop" /\ uLeft = <<>>
    /\ uOut' = Join("-", uBatches)
    /\ uPc' = "returned"
    /\ UNCHANGED <<uIn, uBatches, uInd, uLeft, storeVars, rconVars>>

-----------------------------------------------------------------------------
(* The Whitelist store.                                                    *)

NameOf == <<"alice", "bob", "carol", "dave", "erin">>
Names == { NameOf[i] : i \in 1..MaxNames }

\* The identifiers the resolver answers with in the store's runs, and their
\* canonical forms (what a whitelist file holds).
StoreIds == { CompactId(1, 0), CompactId(3, 5) }
StoreUuids == { IdToUuid(x) : x \in StoreIds }

\* The canonical form of each of these identifiers.
Canonical == [x \in StoreIds |-> IdToUuid(x)]

\* No uuid: what looking up an absent name gives.
NoUuid == <<>>

\* dict: an insertion-ordered sequence of <<key, value>> items, keys unique.
Keys(d) == { d[i][1] : i \in 1..Len(d) }
Lookup(d, k) == IF k \in Keys(d) THEN d[CHOOSE i \in 1..Len(d) : d[i][1] = k][2] ELSE NoUuid

\* d[k] = v: an existing key keeps its place, a new key goes last.
DictSet(d, k, v) ==
    IF k \in Keys(d) THEN [i \in 1..Len(d) |-> IF d[i][1] = k THEN <<k, v>> ELSE d[i]]
    ELSE Append(d, <<k, v>>)

\* d.pop(k) for a key that is present.
DictPop(d, k) == LET Keep(item) == item[1] # k IN SelectSeq(d, Keep)

RECURSIVE DictUpdate(_, _)
\* d.update(u)
DictUpdate(d, u) ==
    IF u = <<>> THEN d ELSE DictUpdate(DictSet(d, Head(u)[1], Head(u)[2]), Tail(u))

RECURSIVE DictFromRecordsFirstWins(_, _)
DictFromRecordsFirstWins(d, recs) ==
    IF recs = <<>> THEN d
    ELSE DictFromRecordsFirstWins(
             IF Head(recs).name \in Keys(d) THEN d
             ELSE Append(d, <<Head(recs).name, Head(recs).uuid>>), Tail(recs))

RECURSIVE DictFromRecords(_, _)
\* load's dict comprehension {item['name']: item['uuid'] for item in container}
DictFromRecords(d, recs) ==
    IF recs = <<>> THEN d
    ELSE DictFromRecords(DictSet(d, Head(recs).name, Head(recs).uuid), Tail(recs))

ToContainerReversed(d) ==
    [i \in 1..Len(d) |-> [uuid |-> d[Len(d) + 1 - i][2], name |-> d[Len(d) + 1 - i][1]]]

\* _update_container's list comprehension over self._usernames.items()
ToContainer(d) == [i \in 1..Len(d) |-> [uuid |-> d[i][2], name |-> d[i][1]]]

\* The file's text, as tokens: the array's brackets and one token per record.
LBracket == [kind |-> "[", uuid |-> NoUuid, name |-> ""]
RBracket == [kind |-> "]", uuid |-> NoUuid, name |-> ""]
RecordToken(r) == [kind |-> "record", uuid |-> r.uuid, name |-> r.name]

\* json.dump(container, file, indent=2)
Serialize(cont) ==
    <<LBracket>> \o [i \in 1..Len(cont) |-> RecordToken(cont[i])] \o <<RBracket>>

\* json.load accepts the text: one array of records.
WellFormed(f) ==
    /\ Len(f) >= 2
    /\ f[1] = LBracket
    /\ f[Len(f)] = RBracket
    /\ \A i \in 2..(Len(f) - 1) : f[i].kind = "record"

\* json.load(file) of a well-formed text
Parse(f) == [i \in 1..(Len(f) - 2) |-> [uuid |-> f[i + 1].uuid, name |-> f[i + 1].name]]

\* What the file holds after a writer whose offset is 0 writes data: the file
\* was cut to length 0 when the writer opened it, but another writer may have
\* written since, and what lies beyond the data stays.
Overwrite(f, data) == data \o SubSeq(f, Len(data) + 1, Len(f))

\* The resolver's answers: a compact id, no id (None), or an exception.
GotId(x) == [tag |-> "id", id |-> x]
GotNone == [tag |-> "none", id |-> <<>>]
GotRaise == [tag |-> "raise", id |-> <<>>]
Outcomes == { GotId(x) : x \in StoreIds } \cup {GotNone, GotRaise}

AddTryRaw(upd, target, o) ==
    IF o.tag = "id" THEN DictSet(upd, target, o.id) ELSE upd

\* add's try block for one target: update[target] = id_to_uuid(get_uuid(target)),
\* where get_uuid raising, or id_to_uuid raising on None, is caught and passed.
AddTry(upd, target, o) ==
    IF o.tag = "id" THEN DictSet(upd, target, IdToUuid(o.id)) ELSE upd

RemoveOneFirst(d, target) ==
    IF target \in Keys(d) THEN Tail(d) ELSE d

\* remove's loop body: if target in self._usernames: self._usernames.pop(target)
RemoveOne(d, target) ==
    IF target \in Keys(d) THEN DictPop(d, target) ELSE d

Procs == {1, 2}

SeqsUpTo(S, n) == UNION { [1..k -> S] : k \in 0..n }
AllBatches == SeqsUpTo(Names, MaxBatch)
\* Two concurrent invocations each name one user, on a file of at most one record.
RaceBatches == { <<n>> : n \in Names }
Records == [uuid : StoreUuids, name : Names]
InitialFiles == { Serialize(recs) : recs \in SeqsUpTo(Records, MaxFileRecs) }
RaceFiles == { Serialize(<<>>) } \cup { Serialize(<<r>>) : r \in Records }

Push(l, op) == <<l[2], op>>
SeqSet(s) == { s[i] : i \in 1..Len(s) }

\* What an observer notes when a public method is entered.
Enter(p, op) ==
    /\ cur' = [cur EXCEPT ![p] = op]
    /\ preNames' = [preNames EXCEPT ![p] = usernames[p]]
    /\ preFile' = [preFile EXCEPT ![p] = file]
    /\ outcomes' = [outcomes EXCEPT ![p] = <<>>]
    /\ nsaves' = [nsaves EXCEPT ![p] = 0]

\* Whitelist.__init__: save() if the file does not exist, load() otherwise.
Construct(p) ==
    /\ pc[p] = "start"
    /\ Enter(p, "init")
    /\ IF ~fileExists
          THEN /\ pc' = [pc EXCEPT ![p] = "save_open"]
               /\ UNCHANGED <<usernames, container, lastOps>>
          ELSE IF WellFormed(file)
          THEN /\ container' = [container EXCEPT ![p] = Parse(file)]
               /\ usernames' = [usernames EXCEPT ![p] = DictFromRecords(<<>>, Parse(file))]
               /\ pc' = [pc EXCEPT ![p] = "idle"]
               /\ lastOps' = [lastOps EXCEPT ![p] = Push(@, "init")]
          ELSE /\ pc' = [pc EXCEPT ![p] = "fatal"]
               /\ UNCHANGED <<usernames, container, lastOps>>
    /\ UNCHANGED <<uuidVars, rconVars, fileVars, targets, idx, update, ops, snap,
                   totalSaves, touched, lastWriter, overlap>>

SaveOpenKeep(p) ==
    /\ pc[p] = "save_open"
    /\ container' = [container EXCEPT ![p] = ToContainer(usernames[p])]
    /\ fileExists' = TRUE
    /\ pc' = [pc EXCEPT ![p] = "save_dump"]
    /\ overlap' = (overlap \/ \E q \in Procs \ {p} : pc[q] = "save_dump")
    /\ UNCHANGED <<uuidVars, rconVars, file, file0, usernames, targets, idx,
                   update, cur, ops, lastOps, preNames, snap, preFile, outcomes,
                   nsaves, totalSaves, touched, lastWriter>>

\* save(), first half: _update_container(), then open(path, 'w') cuts the file
\* to length 0 (and creates it).
SaveOpen(p) ==
    /\ pc[p] = "save_open"
    /\ container' = [container EXCEPT ![p] = ToContainer(usernames[p])]
    /\ file' = <<>>
    /\ fileExists' = TRUE
    /\ pc' = [pc EXCEPT ![p] = "save_dump"]
    /\ overlap' = (overlap \/ \E q \in Procs \ {p} : pc[q] = "save_dump")
    /\ UNCHANGED <<uuidVars, rconVars, file0, usernames, targets, idx, update, cur,
                   ops, lastOps, preNames, snap, preFile, outcomes, nsaves,
                   totalSaves, touched, lastWriter>>

\* save(), second half: json.dump's text reaches the file when the with block
\* closes it; the public method that called save() returns.
SaveDump(p) ==
    /\ pc[p] = "save_dump"
    /\ file' = Overwrite(file, Serialize(container[p]))
    /\ pc' = [pc EXCEPT ![p] = "idle"]
    /\ nsaves' = [nsaves EXCEPT ![p] = @ + 1]
    /\ totalSaves' = [totalSaves EXCEPT ![p] = @ + 1]
    /\ lastWriter' = p
    /\ lastOps' = [lastOps EXCEPT ![p] = Push(@, cur[p])]
    /\ UNCHANGED <<uuidVars, rconVars, fileExists, file0, usernames, container,
                   targets, idx, update, cur, ops, preNames, snap, preFile,
                   outcomes, touched, overlap>>

\* add(targets) is entered, the one command of the invocation: update = {}
CallAdd(p, batches) ==
    /\ pc[p] = "idle" /\ ops[p] = 0
    /\ \E b \in batches :
          /\ targets' = [targets EXCEPT ![p] = b]
          /\ touched' = [touched EXCEPT ![p] = @ \cup SeqSet(b)]
    /\ Enter(p, "add")
    /\ idx' = [idx EXCEPT ![p] = 1]
    /\ update' = [update EXCEPT ![p] = <<>>]
    /\ ops' = [ops EXCEPT ![p] = @ + 1]
    /\ pc' = [pc EXCEPT ![p] = "add_loop"]
    /\ UNCHANGED <<uuidVars, rconVars, fileVars, usernames, container, lastOps,
                   snap, totalSaves, lastWriter, overlap>>

AddStepSaving(p) ==
    /\ pc[p] = "add_loop" /\ idx[p] <= Len(targets[p])
    /\ \E o \in Outcomes :
          /\ update' = [update EXCEPT ![p] = AddTry(@, targets[p][idx[p]], o)]
          /\ outcomes' = [outcomes EXCEPT ![p] = Append(@, o)]
          /\ file' = Serialize(ToContainer(DictUpdate(usernames[p], update'[p])))
    /\ idx' = [idx EXCEPT ![p] = @ + 1]
    /\ UNCHANGED <<uuidVars, rconVars, fileExists, file0, pc, usernames, container,
                   targets, cur, ops, lastOps, preNames, snap, preFile, nsaves,
                   totalSaves, touched, lastWriter, overlap>>

\* One iteration of add's for loop.
AddStep(p) ==
    /\ pc[p] = "add_loop" /\ idx[p] <= Len(targets[p])
    /\ \E o \in Outcomes :
          /\ update' = [update EXCEPT ![p] = AddTry(@, targets[p][idx[p]], o)]
          /\ outcomes' = [outcomes EXCEPT ![p] = Append(@, o)]
    /\ idx' = [idx EXCEPT ![p] = @ + 1]
    /\ UNCHANGED <<uuidVars, rconVars, fileVars, pc, usernames, container, targets,
                   cur, ops, lastOps, preNames, snap, preFile, nsaves, totalSaves,
                   touched, lastWriter, overlap>>

\* The loop is over: self._usernames.update(update), then self.save() begins.
AddMerge(p) ==
    /\ pc[p] = "add_loop" /\ idx[p] > Len(targets[p])
    /\ usernames' = [usernames EXCEPT ![p] = DictUpdate(@, update[p])]
    /\ pc' = [pc EXCEPT ![p] = "save_open"]
    /\ UNCHANGED <<uuidVars, rconVars, fileVars, container, targets, idx, update,
                   cur, ops, histVars>>

\* remove(targets) is entered, the one command of the invocation.
CallRemove(p, batches) ==
    /\ pc[p] = "idle" /\ ops[p] = 0
    /\ \E b \in batches :
          /\ targets' = [targets EXCEPT ![p] = b]
          /\ touched' = [touched EXCEPT ![p] = @ \cup SeqSet(b)]
    /\ Enter(p, "remove")
    /\ idx' = [idx EXCEPT ![p] = 1]
    /\ ops' = [ops EXCEPT ![p] = @ + 1]
    /\ pc' = [pc EXCEPT ![p] = "remove_loop"]
    /\ UNCHANGED <<uuidVars, rconVars, fileVars, usernames, container, update,
                   lastOps, snap, totalSaves, lastWriter, overlap>>

\* One iteration of remove's for loop.
RemoveStep(p) ==
    /\ pc[p] = "remove_loop" /\ idx[p] <= Len(targets[p])
    /\ usernames' = [usernames EXCEPT ![p] = RemoveOne(@, targets[p][idx[p]])]
    /\ idx' = [idx EXCEPT ![p] = @ + 1]
    /\ UNCHANGED <<uuidVars, rconVars, fileVars, pc, container, targets, update,
                   cur, ops, histVars>>

\* The loop is over: self.save() begins.
RemoveEnd(p) ==
    /\ pc[p] = "remove_loop" /\ idx[p] > Len(targets[p])
    /\ pc' = [pc EXCEPT ![p] = "save_open"]
    /\ UNCHANGED <<uuidVars, rconVars, fileVars, usernames, container, targets,
                   idx, update, cur, ops, histVars>>

\* save() called on the object directly.
CallSave(p) ==
    /\ pc[p] = "idle" /\ ops[p] < MaxOps
    /\ Enter(p, "save")
    /\ snap' = [snap EXCEPT ![p] = usernames[p]]
    /\ ops' = [ops EXCEPT ![p] = @ + 1]
    /\ pc' = [pc EXCEPT ![p] = "save_open"]
    /\ UNCHANGED <<uuidVars, rconVars, fileVars, usernames, container, targets,
                   idx, update, lastOps, totalSaves, touched, lastWriter, overlap>>

\* load() called on the object directly; json.load raising leaves the fields.
CallLoad(p) ==
    /\ pc[p] = "idle" /\ ops[p] < MaxOps
    /\ Enter(p, "load")
    /\ ops' = [ops EXCEPT ![p] = @ + 1]
    /\ IF WellFormed(file)
          THEN /\ container' = [container EXCEPT ![p] = Parse(file)]
               /\ usernames' = [usernames EXCEPT ![p] = DictFromRecords(<<>>, Parse(file))]
               /\ pc' = [pc EXCEPT ![p] = "idle"]
               /\ lastOps' = [lastOps EXCEPT ![p] = Push(@, "load")]
          ELSE /\ pc' = [pc EXCEPT ![p] = "fatal"]
               /\ UNCHANGED <<usernames, container, lastOps>>
    /\ UNCHANGED <<uuidVars, rconVars, fileVars, targets, idx, update, snap,
                   totalSaves, touched, lastWriter, overlap>>

-----------------------------------------------------------------------------
(* The remote command dispatcher and the rcon sub-commands.                *)

SubCommands == {"add", "remove", "list", "on", "off", "reload"}

DestNameOf == <<"lobby", "survival", "creative", "skyblock">>

\* The exceptions the connection can fail with. The first four are Python's
\* ConnectionError family; a timed out or unroutable socket (TimeoutError,
\* OSError) and a login the server rejects (MCRconException) are not.
ConnectionErrors ==
    {"ConnectionRefusedError", "ConnectionResetError", "ConnectionAbortedError",
     "BrokenPipeError"}
OtherErrors == {"TimeoutError", "MCRconException"}
ConnectFaults == {"ConnectionRefusedError", "TimeoutError"}
LoginFaults ==
    {"ConnectionResetError", "ConnectionAbortedError", "BrokenPipeError",
     "TimeoutError", "MCRconException"}
CommandFaults ==
    {"ConnectionResetError", "ConnectionAbortedError", "BrokenPipeError",
     "ConnectionRefusedError", "TimeoutError"}

TerminatedMessage == "The connection was terminated, the server may have been stopped."
RefusedMessage == "The connection could not be made as the server actively refused it."
ServerReply == "<the server's response>"

\* repr(e)
Repr(e) ==
    CASE e = "ConnectionRefusedError" -> "ConnectionRefusedError(111, 'Connection refused')"
      [] e = "ConnectionResetError" -> "ConnectionResetError(104, 'Connection reset by peer')"
      [] e = "ConnectionAbortedError" -> "ConnectionAbortedError(103, 'Software caused connection abort')"
      [] e = "BrokenPipeError" -> "BrokenPipeError(32, 'Broken pipe')"
      [] e = "TimeoutError" -> "TimeoutError('timed out')"
      [] OTHER -> "MCRconException('Login failed')"

NoFault == [stage |-> "none", kind |-> "none"]

\* except (ConnectionResetError, ConnectionAbortedError), around mcr.command
InnerCatches(e) == e \in {"ConnectionResetError", "ConnectionAbortedError"}
\* except ConnectionRefusedError / except ConnectionError, around the with
OuterCatches(e) == e \in ConnectionErrors

\* A sub-command of the rcon group is entered: cmd is built.
RconStart ==
    /\ rPc = "idle"
    /\ \E sub \in SubCommands :
          \E t \in (IF sub \in {"add", "remove"} THEN SeqsUpTo(Names, 1) ELSE {<<>>}) :
              cmd' = <<"/whitelist", sub>> \o t
    /\ di' = 1
    /\ rPc' = "loop"
    /\ UNCHANGED <<uuidVars, storeVars, dests, echoed, conn, nclose, exc, result,
                   fault, sent>>

\* The loop body begins: echo 'Command to <name>', call send_command_to_mcrcon.
RconCall ==
    /\ rPc = "loop" /\ di <= Len(dests)
    /\ echoed' = Append(echoed, dests[di])
    /\ sent' = Append(sent, di)
    /\ conn' = "none" /\ nclose' = 0 /\ exc' = "none" /\ result' = "none"
    /\ fault' = NoFault
    /\ rPc' = "enter"
    /\ UNCHANGED <<uuidVars, storeVars, dests, cmd, di>>

\* with MCRcon(host, password, port, tlsmode) as mcr: the context is entered,
\* which connects the socket and then logs in. When entering raises, the with
\* statement does not run the context's exit.
McrEnter ==
    /\ rPc = "enter"
    /\ \/ /\ conn' = "open"
          /\ rPc' = "command"
          /\ UNCHANGED <<exc, fault>>
       \/ \E e \in ConnectFaults :
             /\ exc' = e
             /\ fault' = [stage |-> "connect", kind |-> e]
             /\ rPc' = "handle"
             /\ UNCHANGED conn
       \/ \E e \in LoginFaults :
             /\ conn' = "open"
             /\ exc' = e
             /\ fault' = [stage |-> "login", kind |-> e]
             /\ rPc' = "handle"
    /\ UNCHANGED <<uuidVars, storeVars, dests, cmd, di, echoed, nclose, result,
                   sent>>

\* return mcr.command(command), inside the inner try.
McrCommand ==
    /\ rPc = "command"
    /\ \/ /\ result' = ServerReply
          /\ UNCHANGED <<exc, fault>>
       \/ \E e \in CommandFaults :
             /\ fault' = [stage |-> "command", kind |-> e]
             /\ IF InnerCatches(e)
                   THEN result' = TerminatedMessage /\ UNCHANGED exc
                   ELSE exc' = e /\ UNCHANGED result
    /\ rPc' = "exit"
    /\ UNCHANGED <<uuidVars, storeVars, dests, cmd, di, echoed, conn, nclose,
                   sent>>

\* The with block is left, by the return or by an exception: the context's
\* exit disconnects.
McrExit ==
    /\ rPc = "exit"
    /\ conn' = "closed"
    /\ nclose' = nclose + 1
    /\ rPc' = IF exc = "none" THEN "return" ELSE "handle"
    /\ UNCHANGED <<uuidVars, storeVars, dests, cmd, di, echoed, exc, result, fault,
                   sent>>

\* The outer except clauses.
McrHandle ==
    /\ rPc = "handle"
    /\ IF exc = "ConnectionRefusedError"
          THEN result' = RefusedMessage /\ exc' = "none" /\ rPc' = "return"
          ELSE IF OuterCatches(exc)
          THEN result' = Repr(exc) /\ exc' = "none" /\ rPc' = "return"
          ELSE rPc' = "raised" /\ UNCHANGED <<exc, result>>
    /\ UNCHANGED <<uuidVars, storeVars, dests, cmd, di, echoed, conn, nclose,
                   fault, sent>>

\* The call returned: click.echo(<the string>), and the next destination.
RconEcho ==
    /\ rPc = "return"
    /\ echoed' = Append(echoed, result)
    /\ di' = di + 1
    /\ rPc' = "loop"
    /\ UNCHANGED <<uuidVars, storeVars, dests, cmd, conn, nclose, exc, result,
                   fault, sent>>

\* The call raised: nothing in the sub-command catches, the loop is left.
RconAbort ==
    /\ rPc = "raised"
    /\ rPc' = "aborted"
    /\ UNCHANGED <<uuidVars, storeVars, dests, cmd, di, echoed, conn, nclose, exc,
                   result, fault, sent>>

\* The loop has visited every destination.
RconEnd ==
    /\ rPc = "loop" /\ di > Len(dests)
    /\ rPc' = "done"
    /\ UNCHANGED <<uuidVars, storeVars, dests, cmd, di, echoed, conn, nclose, exc,
                   result, fault, sent>>

InitRconState(ds) ==
    /\ rPc = "idle" /\ dests = ds /\ cmd = <<>> /\ di = 1 /\ echoed = <<>>
    /\ conn = "none" /\ nclose = 0 /\ exc = "none" /\ result = "none"
    /\ fault = NoFault /\ sent = <<>>

InitRconOff == InitRconState(<<>>)



-----------------------------------------------------------------------------
(* The specifications of the store.                                        *)

InitObjects(first) ==
    /\ pc = [p \in Procs |-> IF p \in first THEN "start" ELSE "off"]
    /\ usernames = [p \in Procs |-> <<>>]
    /\ container = [p \in Procs |-> <<>>]
    /\ targets = [p \in Procs |-> <<>>]
    /\ idx = [p \in Procs |-> 1]
    /\ update = [p \in Procs |-> <<>>]
    /\ cur = [p \in Procs |-> "none"]
    /\ ops = [p \in Procs |-> 0]
    /\ lastOps = [p \in Procs |-> <<"none", "none">>]
    /\ preNames = [p \in Procs |-> <<>>]
    /\ snap = [p \in Procs |-> <<>>]
    /\ preFile = [p \in Procs |-> <<>>]
    /\ outcomes = [p \in Procs |-> <<>>]
    /\ nsaves = [p \in Procs |-> 0]
    /\ totalSaves = [p \in Procs |-> 0]
    /\ touched = [p \in Procs |-> {}]
    /\ lastWriter = 0
    /\ overlap = FALSE

InitUuid ==
    /\ uPc = "idle" /\ uIn = <<>> /\ uBatches = <<>> /\ uInd = 0
    /\ uLeft = <<>> /\ uOut = <<>>

InitStore ==
    /\ InitUuid
    /\ \/ fileExists = FALSE /\ file = <<>>
       \/ fileExists = TRUE /\ file \in InitialFiles
    /\ file0 = file
    /\ InitObjects({1})
    /\ InitRconOff

\* One invocation of manual add or manual remove: the Whitelist is built on
\* the file, then add or remove is called on it once.
Init == InitStore

Next ==
    \/ Construct(1)
    \/ SaveOpen(1)
    \/ SaveDump(1)
    \/ CallAdd(1, AllBatches)
    \/ AddStep(1)
    \/ AddMerge(1)
    \/ CallRemove(1, AllBatches)
    \/ RemoveStep(1)
    \/ RemoveEnd(1)

Spec == Init /\ [][Next]_vars

\* A Whitelist object on which save() and load() are called, in any order.
InitIO == InitStore

NextIO ==
    \/ Construct(1)
    \/ SaveOpen(1)
    \/ SaveDump(1)
    \/ CallSave(1)
    \/ CallLoad(1)

SpecIO == InitIO /\ [][NextIO]_vars

\* id_to_uuid applied to every well-formed compact identifier of the bound.
InitU ==
    /\ InitUuid
    /\ fileExists = FALSE /\ file = <<>> /\ file0 = <<>>
    /\ InitObjects({})
    /\ InitRconOff

NextU == UuidCall \/ UuidLoop \/ UuidReturn

SpecUuid == InitU /\ [][NextU]_vars

\* One rcon sub-command over a configuration of 0 to MaxDests destinations.
InitRcon ==
    /\ InitUuid
    /\ fileExists = FALSE /\ file = <<>> /\ file0 = <<>>
    /\ InitObjects({})
    /\ \E n \in 0..MaxDests : InitRconState([i \in 1..n |-> DestNameOf[i]])

NextRcon ==
    \/ RconStart
    \/ RconCall
    \/ McrEnter
    \/ McrCommand
    \/ McrExit
    \/ McrHandle
    \/ RconEcho
    \/ RconAbort
    \/ RconEnd

SpecRcon == InitRcon /\ [][NextRcon]_vars

-----------------------------------------------------------------------------
(* Properties of id_to_uuid.                                               *)

\* C6: for every well-formed 32-character compact identifier, id_to_uuid
\* returns 36 characters that split at the hyphens into exactly 5 groups of
\* lengths 8, 4, 4, 4 and 12, and the groups concatenated give back the input.
UuidShape ==
    uPc = "returned" =>
        LET g == Split(uOut, "-") IN
        /\ Len(uIn) = 32
        /\ Len(uOut) = 36
        /\ Len(g) = 5
        /\ [i \in 1..5 |-> Len(g[i])] = <<8, 4, 4, 4, 12>>
        /\ Concat(g) = uIn
        /\ uOut = IdToUuid(uIn)

\* The docstring's shape of example: a returned uuid of an identifier whose
\* digits are not all the same.
UuidShapeWitness ==
    /\ uPc = "returned"
    /\ uIn = CompactId(3, 5)
    /\ uOut[9] = "-" /\ uOut[14] = "-" /\ uOut[19] = "-" /\ uOut[24] = "-"

-----------------------------------------------------------------------------
(* Properties of the store, one invocation at a time.                      *)

Max(S) == CHOOSE x \in S : \A y \in S : y <= x

\* The positions of the batch at which name n was resolved.
SuccessAt(p, n) ==
    { i \in 1..Len(outcomes[p]) : targets[p][i] = n /\ outcomes[p][i].tag = "id" }

AddReturned(p) == pc[p] = "idle" /\ cur[p] = "add"

\* C1: add never raises, and when it has returned the mapping is the mapping
\* before the call overridden with name -> canonical(id) for exactly the names
\* whose resolution succeeded: every target was processed, a name that failed
\* keeps its pre-state, a name that resolved holds its new uuid.
AddContract ==
    \A p \in Procs :
        /\ cur[p] = "add" => pc[p] # "fatal"
        /\ AddReturned(p) =>
              /\ Len(outcomes[p]) = Len(targets[p])
              /\ Cardinality(Keys(usernames[p])) = Len(usernames[p])
              /\ Keys(usernames[p]) =
                    Keys(preNames[p]) \cup { n \in Names : SuccessAt(p, n) # {} }
              /\ \A n \in Names :
                    Lookup(usernames[p], n) =
                        IF SuccessAt(p, n) # {}
                        THEN Canonical[outcomes[p][Max(SuccessAt(p, n))].id]
                        ELSE Lookup(preNames[p], n)

\* add(["alice", "bob"]) returned: alice failed and stays absent, bob, seen
\* after the failure, resolved and had his old uuid overwritten.
AddContractWitness ==
    /\ AddReturned(1)
    /\ targets[1] = <<"alice", "bob">>
    /\ outcomes[1][1].tag # "id"
    /\ outcomes[1][2].tag = "id"
    /\ "alice" \notin Keys(preNames[1]) /\ "alice" \notin Keys(usernames[1])
    /\ "bob" \in Keys(preNames[1])
    /\ Lookup(preNames[1], "bob") # Lookup(usernames[1], "bob")

\* C2: save() followed by load() leaves the mapping as it was before the save:
\* the same names, in the same order, with the same uuids.
RoundTrip ==
    \A p \in Procs :
        (pc[p] = "idle" /\ lastOps[p] = <<"save", "load">>) => usernames[p] = snap[p]

\* save() then load() returned on a mapping of two entries.
RoundTripWitness ==
    /\ pc[1] = "idle" /\ lastOps[1] = <<"save", "load">>
    /\ Len(usernames[1]) = 2
    /\ usernames[1][1][2] # usernames[1][2][2]

RemoveReturned(p) == pc[p] = "idle" /\ cur[p] = "remove"

\* The entries of d whose name is not in the batch b, in d's order.
Without(d, b) == LET Keep(item) == item[1] \notin SeqSet(b) IN SelectSeq(d, Keep)

\* C3: remove never raises; when it has returned every batch name is absent
\* and the entries of the other names are as they were, in the same order.
RemoveContract ==
    \A p \in Procs :
        /\ cur[p] = "remove" => pc[p] # "fatal"
        /\ RemoveReturned(p) =>
              /\ usernames[p] = Without(preNames[p], targets[p])
              /\ (SeqSet(targets[p]) \cap Keys(preNames[p]) = {}
                    => usernames[p] = preNames[p])

\* remove returned on a batch with one present name, another entry remaining.
RemoveContractWitness ==
    /\ RemoveReturned(1)
    /\ Len(preNames[1]) = 2
    /\ targets[1] = <<preNames[1][1][1]>>
    /\ usernames[1] = <<preNames[1][2]>>

\* C7: one call of add or remove writes the file exactly once, after the
\* whole batch: at every point of the batch before save() (where an
\* invocation that is killed stops for good) the file holds what it held when
\* the call began.
SaveOncePerBatch ==
    \A p \in Procs :
        /\ (cur[p] \in {"add", "remove"}
              /\ pc[p] \in {"add_loop", "remove_loop", "save_open"})
              => (file = preFile[p] /\ nsaves[p] = 0)
        /\ (cur[p] \in {"add", "remove"} /\ pc[p] = "save_dump") => nsaves[p] = 0
        /\ (AddReturned(p) \/ RemoveReturned(p)) => nsaves[p] = 1

\* In the middle of an add whose first name resolved: were the invocation to
\* stop here, the file would be left as it was before the call.
SaveOncePerBatchWitness ==
    /\ pc[1] = "add_loop"
    /\ idx[1] = 2 /\ Len(targets[1]) = 2
    /\ update[1] # <<>>
    /\ Lookup(preNames[1], targets[1][1]) # Lookup(update[1], targets[1][1])

CountName(recs, n) == Cardinality({ i \in 1..Len(recs) : recs[i].name = n })
LastUuid(recs, n) == recs[Max({ i \in 1..Len(recs) : recs[i].name = n })].uuid
Duplicated(n) == WellFormed(file0) /\ CountName(Parse(file0), n) >= 2

\* C9 as stated: a name the file holds several records of still has several
\* records in the file after a following save.
DuplicatesKeptOnSave ==
    \A p \in Procs : \A n \in Names :
        (Duplicated(n) /\ n \notin touched[p] /\ pc[p] = "idle" /\ totalSaves[p] >= 1)
            => (WellFormed(file) /\ CountName(Parse(file), n) >= 2)

\* C9, amended: load maps a name the file holds several records of to the
\* uuid of the last of them, and a following save writes one record for that
\* name, with that uuid: the duplicates are dropped.
DuplicatesDroppedOnSave ==
    \A p \in Procs : \A n \in Names :
        /\ (pc[p] = "idle" /\ ops[p] = 0 /\ WellFormed(file0)
              /\ CountName(Parse(file0), n) >= 1)
              => Lookup(usernames[p], n) = LastUuid(Parse(file0), n)
        /\ (pc[p] = "idle" /\ totalSaves[p] >= 1)
              => /\ WellFormed(file)
                 /\ CountName(Parse(file), n) <= 1
                 /\ (Duplicated(n) /\ n \notin touched[p])
                       => /\ CountName(Parse(file), n) = 1
                          /\ LastUuid(Parse(file), n) = LastUuid(Parse(file0), n)

\* The file held two records for bob with different uuids, and an add of
\* another name has saved.
DuplicatesWitness ==
    /\ Len(file0) = 4
    /\ file0[2].name = "bob" /\ file0[3].name = "bob"
    /\ file0[2].uuid # file0[3].uuid
    /\ AddReturned(1) /\ targets[1] = <<"alice">>
    /\ totalSaves[1] = 1
    /\ Lookup(usernames[1], "bob") = file0[3].uuid

-----------------------------------------------------------------------------
(* Two invocations at the same time on the same file.                      *)

\* Each invocation constructs its Whitelist and calls add or remove once.
InitRace ==
    /\ InitUuid
    /\ \/ fileExists = FALSE /\ file = <<>>
       \/ fileExists = TRUE /\ file \in RaceFiles
    /\ file0 = file
    /\ InitObjects(Procs)
    /\ InitRconOff

NextRace ==
    \E p \in Procs :
        \/ Construct(p)
        \/ SaveOpen(p)
        \/ SaveDump(p)
        \/ CallAdd(p, RaceBatches)
        \/ AddStep(p)
        \/ AddMerge(p)
        \/ CallRemove(p, RaceBatches)
        \/ RemoveStep(p)
        \/ RemoveEnd(p)

SpecRace == InitRace /\ [][NextRace]_vars

\* The invocation is over: its one call returned, or its load raised.
Over(p) == (pc[p] = "idle" /\ ops[p] = 1) \/ pc[p] = "fatal"
AllOver == \A p \in Procs : Over(p)

\* C10 as stated: in every interleaving the file ends up holding exactly the
\* mapping written by the invocation whose save happened last.
LastWriterWins ==
    (AllOver /\ lastWriter # 0) =>
        file = Serialize(ToContainer(usernames[lastWriter]))

\* C10, amended: when the two saves do not overlap (neither invocation opens
\* the file for writing while the other is between its open and its write),
\* the file ends up holding exactly the mapping of the invocation that saved
\* last.
LastWriterWinsUnlessOverlap ==
    (AllOver /\ lastWriter # 0 /\ ~overlap) =>
        file = Serialize(ToContainer(usernames[lastWriter]))

\* Both invocations loaded the same file; invocation 1 added alice and saved,
\* then invocation 2, which never saw alice, saved: alice is not in the file.
LostUpdateWitness ==
    /\ AllOver /\ ~overlap /\ lastWriter = 2
    /\ cur[1] = "add" /\ "alice" \in Keys(usernames[1])
    /\ "alice" \notin Keys(preNames[1])
    /\ totalSaves[1] = 1 /\ totalSaves[2] = 1
    /\ WellFormed(file)
    /\ CountName(Parse(file), "alice") = 0

-----------------------------------------------------------------------------
(* Properties of the dispatcher and of the rcon sub-commands.              *)

\* C4: send_command_to_mcrcon never raises: whatever the connection fails
\* with, while connecting or logging in or during the command, the call
\* returns a string: the refusal message for a refused connection, the
\* 'terminated' message for a reset or abort during the command, the error's
\* repr for any other failure.
DispatcherNeverRaises ==
    /\ rPc # "raised"
    /\ rPc = "return" =>
          result = CASE fault = NoFault -> ServerReply
                     [] fault.kind = "ConnectionRefusedError" -> RefusedMessage
                     [] fault.stage = "command"
                          /\ fault.kind \in {"ConnectionResetError", "ConnectionAbortedError"}
                          -> TerminatedMessage
                     [] OTHER -> Repr(fault.kind)

\* C5: when send_command_to_mcrcon returns, the connection it opened is
\* closed, and it was closed exactly once.
ClosedOnEveryExit ==
    rPc = "return" =>
        /\ conn # "open"
        /\ nclose <= 1
        /\ conn = "closed" => nclose = 1

\* C8: the dispatcher is called once per destination, in configuration
\* order, and no outcome at one destination keeps the later ones from being
\* sent the command: the loop is never left early, and when the sub-command
\* is over every destination was called and had its response printed.
EveryDestinationServed ==
    /\ sent = [i \in 1..Len(sent) |-> i]
    /\ rPc # "aborted"
    /\ rPc \in {"done", "aborted"} =>
          /\ Len(sent) = Len(dests)
          /\ Len(echoed) = 2 * Len(dests)

====
